---- MODULE Spec2Model ----
(***************************************************************************)
(* Thread milling operation of src/Mod/Path/PathScripts/PathThreadMilling.py *)
(*                                                                         *)
(* Number representation.  The program computes in double precision; the   *)
(* model computes in exact fixed point:                                    *)
(*   - diameters (MajorDiameter, MinorDiameter, tool.Diameter, tool.Crest) *)
(*     and hole centres are whole millimetres;                             *)
(*   - the radii returned by threadRadii and elevatorRadius are in units   *)
(*     of 1/RScale mm;                                                     *)
(*   - the radii returned by threadPasses(count, ...) are in units of      *)
(*     1/(RScale*count) mm, so that the division by count is exact;        *)
(*   - X, Y, I, J of a command are in units of 1/XYScale mm, where         *)
(*     XYScale = RScale * Den(Passes) * TrigScale, so that a radius times  *)
(*     a sine or cosine (in units of 1/TrigScale) is exact;                *)
(*   - Z values and pitches are in ticks, InchTicks ticks = 25.4 mm, and   *)
(*     pitches are even numbers of ticks, so that pitch / 2 is exact.      *)
(* Spec is the program in real arithmetic.  SpecRounded adds the rounding  *)
(* of the double sum z + hPitch of the helix loop, the one place where an  *)
(* error below Tolerance changes the commands.  math.sin and math.cos are  *)
(* a rational approximation (SinPi, CosPi) and SQRT_3_DIVIDED_BY_2 is cut  *)
(* to four digits.                                                         *)
(***************************************************************************)
EXTENDS Integers, Sequences, FiniteSets, TLC

VARIABLES obj, tool, holes, commandlist, log, pc, setup, h, elevator,
          passes, p, thread, path, z, r, i

vars == <<obj, tool, holes, commandlist, log, pc, setup, h, elevator,
          passes, p, thread, path, z, r, i>>

(* ------------------------------ bounds -------------------------------- *)

\* largest configured number of passes (obj.Passes ranges over -1..MaxPasses)
MaxPasses == 2
\* obj.StartDepth ranges over FinalDepth .. FinalDepth + MaxDepth (ticks)
MaxDepth == 4
\* obj.Pitch ranges over the even tick counts 0, 2, .., 2*MaxHalfPitch
MaxHalfPitch == 2
\* number of hole locations handed to circularHoleExecute: 0..MaxHoles
MaxHoles == 2

(* ------------------------------ scales -------------------------------- *)

RScale == 10 * 1000
TrigScale == 10 * 100
\* 25.4 mm in Z ticks (line 496: 25.4 / obj.TPI)
InchTicks == 24

Abs(a) == IF a < 0 THEN -a ELSE a
Sign(a) == IF a < 0 THEN -1 ELSE IF a > 0 THEN 1 ELSE 0

\* denominator of the pass radii: count when threadPasses divides by it
Den(count) == IF count >= 1 THEN count ELSE 1
XYScale(count) == RScale * Den(count) * TrigScale

(* ------------------------- module constants --------------------------- *)

\* SQRT_3_DIVIDED_BY_2 = 0.8660254037844386, in units of 1/RScale
SQRT_3_DIVIDED_BY_2 == 8660

LeftHand == "LeftHand"
RightHand == "RightHand"
ThreadTypeCustomExternal == "CustomExternal"
ThreadTypeCustomInternal == "CustomInternal"
ThreadTypeMetricInternal6H == "MetricInternal6H"
ThreadTypeMetricExternal6G == "MetricExternal6G"
DirectionClimb == "Climb"
DirectionConventional == "Conventional"

ThreadTypesExternal == {ThreadTypeCustomExternal, "ImperialExternal2A",
    "ImperialExternal3A", "MetricExternal4G6G", ThreadTypeMetricExternal6G}
ThreadTypesInternal == {ThreadTypeCustomInternal, "ImperialInternal2B",
    "ImperialInternal3B", ThreadTypeMetricInternal6H}
ThreadOrientations == {LeftHand, RightHand}
Directions == {DirectionClimb, DirectionConventional}

\* PathGeom.Tolerance (1e-6 mm), in Z ticks: below one tick
Tolerance == 0
\* PathGeom.isRoughly(float1, float2): |float1 - float2| <= Tolerance
isRoughly(a, b) == Abs(a - b) <= Tolerance

(* ------------------------------ geometry ------------------------------ *)

\* H = ((majorDia - minorDia) / 2.0) * 1.6, in units of 1/RScale
ThreadH(majorDia, minorDia) ==
    ((((majorDia - minorDia) * RScale) \div 2) * 16) \div 10

\* threadRadii(internal, majorDia, minorDia, toolDia, toolCrest): the pair
\* the function returns, in units of 1/RScale
threadRadii(internal, majorDia, minorDia, toolDia, toolCrest) ==
    LET H == ThreadH(majorDia, minorDia)
    IN  IF internal
        THEN LET outerTip == ((majorDia * RScale) \div 2) + (H \div 8)
                 toolTip == outerTip - toolCrest * SQRT_3_DIVIDED_BY_2
             IN  << ((minorDia - toolDia) * RScale) \div 2,
                    toolTip - ((toolDia * RScale) \div 2) >>
        ELSE LET innerTip == ((minorDia * RScale) \div 2) - (H \div 4)
                 toolTip == innerTip - toolCrest * SQRT_3_DIVIDED_BY_2
             IN  << ((majorDia + toolDia) * RScale) \div 2,
                    toolTip + ((toolDia * RScale) \div 2) >>

\* threadPasses(count, threadRadii, internal, ...) for count # 0: the list
\* it returns, in units of 1/(RScale*count).  dr = (major - minor)/count, so
\* element i (0-based) is minor + dr*(i+1) = (minor*count + (major-minor)*(i+1))/count.
\* range(count) is empty for count < 0.  The only caller passes threadRadii
\* as the radii argument.
threadPasses(count, internal, majorDia, minorDia, toolDia, toolCrest) ==
    LET radii == threadRadii(internal, majorDia, minorDia, toolDia, toolCrest)
        minor == radii[1]
        major == radii[2]
        drNum == major - minor
    IN  IF count < 0 THEN << >>
        ELSE IF internal
             THEN [j \in 1..count |-> minor * count + drNum * j]
             ELSE [j \in 1..count |-> major * count - drNum * j]

\* elevatorRadius(obj, center, internal, tool), in units of 1/RScale
elevatorRadius(o, internal, t) ==
    IF internal
    THEN LET dy == (((o.MinorDiameter - t.Diameter) * RScale) \div 2) - 1 * RScale
         IN  IF dy < 0 THEN 0 ELSE dy
    ELSE (((o.MajorDiameter + t.Diameter) * RScale) \div 2) + 1 * RScale

\* the error elevatorRadius logs when the tool does not fit an internal thread
elevatorRadiusError(o, internal, t) ==
    /\ internal
    /\ (((o.MinorDiameter - t.Diameter) * RScale) \div 2) - 1 * RScale < 0
    /\ o.MinorDiameter < t.Diameter

(* ------------------------------ commands ------------------------------ *)

NoParameters == [k \in {} |-> 0]

\* Path.Command(name, parameters)
Command(name, parameters) == [Name |-> name, Parameters |-> parameters]

\* comment(path, msg): the command it appends
comment(msg) == Command("(------- " \o msg \o " -------)", NoParameters)

\* p.update({"F": f})
UpdateF(parameters, f) ==
    [k \in DOMAIN parameters \cup {"F"} |-> IF k = "F" THEN f ELSE parameters[k]]

\* self.vertRapid and self.horizFeed of the operation (mm/s, supplied by the job)
Feeds == [vertRapid |-> 50, horizFeed |-> 20]

(* --------------------------- _ThreadInternal -------------------------- *)

\* _ThreadInternal.__init__(cmd, zStart, zFinal, pitch)
ThreadInternal(cmd, zStart, zFinal, pitch) ==
    LET signed == IF zStart < zFinal THEN pitch ELSE -pitch
    IN  [cmd |-> cmd, pitch |-> signed, hPitch |-> signed \div 2,
         zStart |-> zStart, zFinal |-> zFinal]

\* overshoots with the two comparisons exchanged
overshootsSwapped(t, zz) ==
    IF t.pitch < 0
    THEN zz + t.hPitch > t.zFinal
    ELSE zz + t.hPitch < t.zFinal

\* _ThreadInternal.overshoots(z)
overshoots(t, zz) ==
    IF t.pitch < 0
    THEN zz + t.hPitch < t.zFinal
    ELSE zz + t.hPitch > t.zFinal

\* _ThreadInternal.isG3()
isG3(t) == t.cmd \in {"G3", "G03", "g3", "g03"}

\* adjustX with the parity test inverted
adjustXXor(t, x, dx) ==
    IF isG3(t) # (t.pitch > 0) THEN x + dx ELSE x - dx

\* _ThreadInternal.adjustX(x, dx)
adjustX(t, x, dx) ==
    IF isG3(t) = (t.pitch > 0) THEN x + dx ELSE x - dx

\* _ThreadInternal.adjustY(y, dy): both branches return y - dy
adjustY(t, y, dy) ==
    IF isG3(t) THEN y - dy ELSE y - dy

\* _ThreadInternal.isUp()
isUp(t) == t.pitch > 0

(* ---------------------------- trigonometry ---------------------------- *)

\* math.sin(pi * m / q) for 0 <= m <= q, in units of 1/TrigScale, by the
\* rational approximation 16 u (1-u) / (5 - 4 u (1-u)), u = m/q
\* (absolute error below 0.002; exact at 0, 1/6, 1/2, 5/6, 1)
SinPi(m, q) ==
    (16 * m * (q - m) * TrigScale) \div (5 * q * q - 4 * m * (q - m))

\* math.cos(pi * m / q) for 0 <= m <= q, as sin(pi/2 - pi m/q)
CosPi(m, q) ==
    IF 2 * m <= q THEN SinPi(q - 2 * m, 2 * q) ELSE -SinPi(2 * m - q, 2 * q)

\* lines 181-184: n = fabs(zFinal - zStart) / hPitch, k = n - int(n); int()
\* truncates toward zero, so k = sign(hPitch) * (|zFinal - zStart| mod |hPitch|) / |hPitch|.
\* The numerator of |k| and its denominator:
FinishNum(t) == Abs(t.zFinal - t.zStart) % Abs(t.hPitch)
FinishDen(t) == Abs(t.hPitch)
\* dy = math.cos(k * math.pi), dx = math.sin(k * math.pi), in units of 1/TrigScale
FinishDy(t) == CosPi(FinishNum(t), FinishDen(t))
FinishDx(t) == Sign(t.hPitch) * SinPi(FinishNum(t), FinishDen(t))

(* --------------------------- threadCommands --------------------------- *)

\* a length in units of 1/XYScale times a sine or cosine in units of 1/TrigScale
\* (every length of the model is a multiple of TrigScale)
Mul(len, trig) == (len \div TrigScale) * trig

\* lines 146-147
yMinOf(center, radius) == center.y - radius
yMaxOf(center, radius) == center.y + radius

\* lines 149-160: the entry moves and the lead-in
EntryCommands(center, t, radius, leadInOut, elev) ==
    << Command("G0", [X |-> center.x, Y |-> center.y + elev]),
       Command("G0", [Z |-> t.zStart]) >>
    \o (IF leadInOut
        THEN << comment("lead-in"),
                Command(t.cmd, [Y |-> yMaxOf(center, radius),
                                J |-> (yMaxOf(center, radius) - (center.y + elev)) \div 2]),
                comment("lead-in") >>
        ELSE << Command("G1", [Y |-> yMaxOf(center, radius)]) >>)

\* lines 165-167: the helix loop runs another iteration
HelixContinues(t, zz) == ~isRoughly(zz, t.zFinal) /\ ~overshoots(t, zz)

\* lines 168-172: the half-turn arc of iteration ii
HelixCommand(center, t, radius, zz, rr, ii) ==
    Command(t.cmd, [Y |-> IF ii % 2 = 0 THEN yMinOf(center, radius)
                                         ELSE yMaxOf(center, radius),
                    Z |-> zz + t.hPitch,
                    J |-> rr])

\* the finishing arc skipped only when another half turn would still fit
FinishSkippedByOvershoot(t, zz) == ~overshoots(t, zz)

\* line 177: the loop ended on zFinal, no finishing arc is needed
FinishSkipped(t, zz) == isRoughly(zz, t.zFinal)

\* lines 177-186: the point (x, y) the exit angle is computed from
ExitPoint(center, t, radius, zz, rr, ii) ==
    IF FinishSkipped(t, zz)
    THEN [x |-> center.x,
          y |-> IF ii % 2 = 0 THEN yMinOf(center, radius) ELSE yMaxOf(center, radius)]
    ELSE [x |-> adjustX(t, center.x, Mul(rr, FinishDx(t))),
          y |-> adjustY(t, center.y, Mul(rr, FinishDy(t)))]

\* lines 187-191: the partial-turn finishing arc and its comments
FinishCommands(center, t, radius, zz, rr, ii) ==
    IF FinishSkipped(t, zz)
    THEN << >>
    ELSE LET pt == ExitPoint(center, t, radius, zz, rr, ii)
         IN  << comment("finish-thread"),
                Command(t.cmd, [X |-> pt.x, Y |-> pt.y, Z |-> t.zFinal, J |-> rr]),
                comment("finish-thread") >>

\* lines 193-195: math.cos(a) and math.sin(a) for a = atan2(y - center.y, x - center.x),
\* in units of 1/TrigScale.  (x, y) lies on the circle of radius |r| about the
\* centre, so cos(a) = (x - center.x)/|r| and sin(a) = (y - center.y)/|r|;
\* atan2(0, 0) is 0.
ExitCos(center, pt, rr) ==
    IF rr = 0 THEN TrigScale ELSE (pt.x - center.x) \div (Abs(rr) \div TrigScale)
ExitSin(center, pt, rr) ==
    IF rr = 0 THEN 0 ELSE (pt.y - center.y) \div (Abs(rr) \div TrigScale)

\* lines 193-207: the lead-out and the final linear move
ExitCommands(center, t, pt, rr, leadInOut, elev) ==
    LET dx == Mul(elev, ExitCos(center, pt, rr))
        dy == Mul(elev, ExitSin(center, pt, rr))
    IN  (IF leadInOut
         THEN << comment("lead-out"),
                 Command(t.cmd, [X |-> center.x + dx, Y |-> center.y + dy,
                                 I |-> dx \div 2, J |-> dy \div 2]),
                 comment("lead-out") >>
         ELSE << >>)
        \o << Command("G1", [X |-> center.x + dx, Y |-> center.y - dy]) >>

(* ------------------------- ObjectThreadMilling ------------------------ *)

\* _isThreadInternal(obj)
isThreadInternal(o) == o.ThreadType \in ThreadTypesInternal

\* _threadSetupInternal with the depths of the left-hand climb cut exchanged
threadSetupInternalSwapped(o) ==
    IF o.Direction = DirectionClimb
    THEN << "G3", o.FinalDepth, o.StartDepth >>
    ELSE IF o.ThreadOrientation = RightHand
         THEN << "G2", o.StartDepth, o.FinalDepth >>
         ELSE << "G2", o.FinalDepth, o.StartDepth >>

\* _threadSetupInternal(obj)
threadSetupInternal(o) ==
    IF o.Direction = DirectionClimb
    THEN IF o.ThreadOrientation = RightHand
         THEN << "G3", o.FinalDepth, o.StartDepth >>
         ELSE << "G3", o.StartDepth, o.FinalDepth >>
    ELSE IF o.ThreadOrientation = RightHand
         THEN << "G2", o.StartDepth, o.FinalDepth >>
         ELSE << "G2", o.FinalDepth, o.StartDepth >>

\* threadSetup(obj)
threadSetup(o) ==
    LET s == threadSetupInternal(o)
    IN  IF o.ThreadType \in ThreadTypesInternal
        THEN s
        ELSE IF s[1] = "G2" THEN << "G3", s[2], s[3] >>
                            ELSE << "G2", s[2], s[3] >>

\* threadPassRadii(obj): the value it leaves in obj.Passes.  No method of the
\* operation calls threadPassRadii; executeThreadMill reads obj.Passes as configured.
threadPassRadiiPasses(o) == IF o.Passes < 1 THEN 1 ELSE o.Passes

\* isToolSupported(obj, tool)
isToolSupported(t) == "Diameter" \in DOMAIN t /\ "Crest" \in DOMAIN t

\* lines 494-496: pitch = obj.Pitch.Value, replaced by 25.4 / obj.TPI when TPI > 0
ResolvedPitch(o) == IF o.TPI > 0 THEN InchTicks \div o.TPI ELSE o.Pitch

\* the pitch test refusing negative pitches only
PitchRejectedStrict(pitch) == pitch < 0

\* line 497: the pitch circularHoleExecute refuses
PitchRejected(pitch) == pitch <= 0

\* lines 475-481: the feed rate executeThreadMill adds to a command
TagFeed(c) ==
    IF c.Name \in {"G0"}
    THEN Command(c.Name, UpdateF(c.Parameters, Feeds.vertRapid))
    ELSE IF c.Name \in {"G1", "G2", "G3"}
         THEN Command(c.Name, UpdateF(c.Parameters, Feeds.horizFeed))
         ELSE c

\* lines 460-462 and 484-486
ClearanceMove(o) == Command("G0", [Z |-> o.ClearanceHeight, F |-> Feeds.vertRapid])

\* FreeCAD.Vector(loc["x"], loc["y"], 0), in units of 1/XYScale
CenterOf(o, loc) == [x |-> loc.x * XYScale(o.Passes), y |-> loc.y * XYScale(o.Passes)]
\* a pass radius of threadPasses, in units of 1/XYScale
RadiusOf(passRadius) == passRadius * TrigScale
\* the elevator radius, in units of 1/XYScale
ElevatorOf(o, elev) == elev * Den(o.Passes) * TrigScale

(* ------------------------------- inputs ------------------------------- *)

\* thread milling cutters, and a tool without a Crest attribute
Tools == {[Diameter |-> 3, Crest |-> 1], [Diameter |-> 3]}
MajorDiameters == {10}
MinorDiameters == {6, 8}
PitchValues == {2 * k : k \in 0..MaxHalfPitch}
TPIValues == {0, 12}
FinalDepths == {-1}
\* hole n of the base geometry
HoleAt(n) == [x |-> 6 * (n - 1), y |-> -4 * (n - 1)]

Objects ==
    { [ThreadType |-> tt, ThreadOrientation |-> to, Direction |-> d,
       MajorDiameter |-> ma, MinorDiameter |-> mi, Pitch |-> pi, TPI |-> tpi,
       Passes |-> n, LeadInOut |-> lio, StartDepth |-> fd + dz, FinalDepth |-> fd,
       ClearanceHeight |-> fd + MaxDepth + 2] :
      tt \in {ThreadTypeCustomInternal, ThreadTypeCustomExternal},
      to \in ThreadOrientations, d \in Directions,
      ma \in MajorDiameters, mi \in MinorDiameters,
      pi \in PitchValues, tpi \in TPIValues,
      n \in -1..MaxPasses, lio \in BOOLEAN,
      fd \in FinalDepths, dz \in 0..MaxDepth }

NoThread == ThreadInternal("", 0, 0, 0)

Init ==
    /\ obj \in Objects
    /\ obj.MajorDiameter > obj.MinorDiameter
    /\ tool \in Tools
    /\ holes \in {[n \in 1..k |-> HoleAt(n)] : k \in 0..MaxHoles}
    /\ commandlist = << >>
    /\ log = << >>
    /\ pc = "circularHoleExecute"
    /\ setup = [cmd |-> "", zStart |-> 0, zFinal |-> 0, pitch |-> 0]
    /\ h = 0
    /\ elevator = 0
    /\ passes = << >>
    /\ p = 0
    /\ thread = NoThread
    /\ path = << >>
    /\ z = 0
    /\ r = 0
    /\ i = 0

(* ------------------------------- actions ------------------------------ *)

\* circularHoleExecute(obj, holes), up to the loop over the holes
CircularHoleExecute ==
    /\ pc = "circularHoleExecute"
    /\ IF isToolSupported(tool)
       THEN LET s == threadSetup(obj)
                pitch == ResolvedPitch(obj)
            IN  /\ commandlist' = Append(commandlist,
                                         Command("(Begin Thread Milling)", NoParameters))
                /\ setup' = [cmd |-> s[1], zStart |-> s[2], zFinal |-> s[3],
                             pitch |-> pitch]
                /\ IF PitchRejected(pitch)
                   THEN /\ log' = Append(log, "Cannot create thread with pitch")
                        /\ pc' = "done"
                        /\ h' = h
                   ELSE /\ log' = log
                        /\ pc' = "executeThreadMill"
                        /\ h' = 1
       ELSE /\ log' = Append(log, "No suitable Tool found for thread milling operation")
            /\ pc' = "done"
            /\ UNCHANGED <<commandlist, setup, h>>
    /\ UNCHANGED <<obj, tool, holes, elevator, passes, p, thread, path, z, r, i>>

\* executeThreadMill(obj, loc, ...), lines 456-472: the elevator, the rapid to
\* clearance height and the call of threadPasses, which divides by obj.Passes
ExecuteThreadMill ==
    /\ pc = "executeThreadMill"
    /\ h <= Len(holes)
    /\ elevator' = elevatorRadius(obj, isThreadInternal(obj), tool)
    /\ log' = IF elevatorRadiusError(obj, isThreadInternal(obj), tool)
              THEN Append(log, "The selected tool is too big")
              ELSE log
    /\ commandlist' = Append(commandlist, ClearanceMove(obj))
    /\ IF obj.Passes = 0
       THEN /\ pc' = "ZeroDivisionError"
            /\ UNCHANGED <<passes, p>>
       ELSE /\ passes' = threadPasses(obj.Passes, isThreadInternal(obj),
                                      obj.MajorDiameter, obj.MinorDiameter,
                                      tool.Diameter, tool.Crest)
            /\ p' = 1
            /\ pc' = "threadCommands"
    /\ UNCHANGED <<obj, tool, holes, setup, h, thread, path, z, r, i>>

\* threadCommands(...), lines 142-164: entry moves, lead-in, loop variables
ThreadCommandsEntry ==
    /\ pc = "threadCommands"
    /\ p <= Len(passes)
    /\ LET center == CenterOf(obj, holes[h])
           radius == RadiusOf(passes[p])
           t == ThreadInternal(setup.cmd, setup.zStart, setup.zFinal, setup.pitch)
       IN  /\ thread' = t
           /\ path' = EntryCommands(center, t, radius, obj.LeadInOut,
                                    ElevatorOf(obj, elevator))
           /\ z' = t.zStart
           /\ r' = -radius
           /\ i' = 0
    /\ pc' = "helix"
    /\ UNCHANGED <<obj, tool, holes, commandlist, log, setup, h, elevator, passes, p>>

\* threadCommands(...), lines 165-175: one iteration of the helix loop
ThreadCommandsHelix ==
    /\ pc = "helix"
    /\ HelixContinues(thread, z)
    /\ path' = Append(path, HelixCommand(CenterOf(obj, holes[h]), thread,
                                         RadiusOf(passes[p]), z, r, i))
    /\ r' = -r
    /\ i' = i + 1
    /\ z' = z + thread.hPitch
    /\ UNCHANGED <<obj, tool, holes, commandlist, log, pc, setup, h, elevator,
                   passes, p, thread>>

\* threadCommands(...), lines 177-209, and executeThreadMill, lines 473-482:
\* the finishing arc, the lead-out, the feed rates, and the pass joins the
\* operation's command list
ThreadCommandsExit ==
    /\ pc = "helix"
    /\ ~HelixContinues(thread, z)
    /\ LET center == CenterOf(obj, holes[h])
           radius == RadiusOf(passes[p])
           pt == ExitPoint(center, thread, radius, z, r, i)
           commands == path
                       \o FinishCommands(center, thread, radius, z, r, i)
                       \o ExitCommands(center, thread, pt, r, obj.LeadInOut,
                                       ElevatorOf(obj, elevator))
           tagged == [k \in 1..Len(commands) |-> TagFeed(commands[k])]
       IN  /\ path' = tagged
           /\ commandlist' = commandlist \o tagged
    /\ p' = p + 1
    /\ pc' = "threadCommands"
    /\ UNCHANGED <<obj, tool, holes, log, setup, h, elevator, passes, thread, z, r, i>>

\* executeThreadMill, lines 484-486: the rapid to clearance height after the
\* last pass, and the next hole
ExecuteThreadMillReturn ==
    /\ pc = "threadCommands"
    /\ p > Len(passes)
    /\ commandlist' = Append(commandlist, ClearanceMove(obj))
    /\ h' = h + 1
    /\ pc' = "executeThreadMill"
    /\ UNCHANGED <<obj, tool, holes, log, setup, elevator, passes, p, thread, path, z, r, i>>

\* circularHoleExecute, line 502: the loop over the holes ends
CircularHoleExecuteReturn ==
    /\ pc = "executeThreadMill"
    /\ h > Len(holes)
    /\ pc' = "done"
    /\ UNCHANGED <<obj, tool, holes, commandlist, log, setup, h, elevator,
                   passes, p, thread, path, z, r, i>>

Next ==
    \/ CircularHoleExecute
    \/ ExecuteThreadMill
    \/ ThreadCommandsEntry
    \/ ThreadCommandsHelix
    \/ ThreadCommandsExit
    \/ ExecuteThreadMillReturn
    \/ CircularHoleExecuteReturn

Spec == Init /\ [][Next]_vars

(* ------------------------ double-precision sums ------------------------ *)

\* Spec computes z + thread.hPitch exactly, as the code does when the depths
\* and the half pitch are doubles whose sums are exact (1.0, 0.5, ...).  For
\* other doubles (a pitch of 0.7 or 25.4/TPI) the sum is rounded: it is the
\* exact sum plus an error far below Tolerance, of either sign or zero.
RoundingErrors == {-1, 0, 1}

\* the errors the sum z + thread.hPitch can carry after ii iterations: z is
\* zStart before the first one, and a sum of two doubles that is the double
\* zFinal in exact arithmetic is computed exactly; later z is a rounded sum
RoundingErrorsOf(ii) == IF ii = 0 THEN {0} ELSE RoundingErrors

\* _ThreadInternal.overshoots(z), lines 115-119, on a rounded sum: the
\* comparison has no tolerance, so a sum that is zFinal in exact arithmetic
\* overshoots when its rounding error points beyond zFinal
overshootsRounded(t, zz, e) ==
    IF t.pitch < 0
    THEN (zz + t.hPitch < t.zFinal) \/ (zz + t.hPitch = t.zFinal /\ e < 0)
    ELSE (zz + t.hPitch > t.zFinal) \/ (zz + t.hPitch = t.zFinal /\ e > 0)

\* threadCommands(...), lines 165-175, with the rounded sum: isRoughly absorbs
\* the error of z, so z and the Z targets keep their exact values
ThreadCommandsHelixRounded ==
    /\ pc = "helix"
    /\ ~isRoughly(z, thread.zFinal)
    /\ \E e \in RoundingErrorsOf(i) : ~overshootsRounded(thread, z, e)
    /\ path' = Append(path, HelixCommand(CenterOf(obj, holes[h]), thread,
                                         RadiusOf(passes[p]), z, r, i))
    /\ r' = -r
    /\ i' = i + 1
    /\ z' = z + thread.hPitch
    /\ UNCHANGED <<obj, tool, holes, commandlist, log, pc, setup, h, elevator,
                   passes, p, thread>>

\* threadCommands(...), lines 165-209, and executeThreadMill, lines 473-482,
\* with the rounded sum: the loop ends on isRoughly or on an overshoot
ThreadCommandsExitRounded ==
    /\ pc = "helix"
    /\ \/ isRoughly(z, thread.zFinal)
       \/ \E e \in RoundingErrorsOf(i) : overshootsRounded(thread, z, e)
    /\ LET center == CenterOf(obj, holes[h])
           radius == RadiusOf(passes[p])
           pt == ExitPoint(center, thread, radius, z, r, i)
           commands == path
                       \o FinishCommands(center, thread, radius, z, r, i)
                       \o ExitCommands(center, thread, pt, r, obj.LeadInOut,
                                       ElevatorOf(obj, elevator))
           tagged == [k \in 1..Len(commands) |-> TagFeed(commands[k])]
       IN  /\ path' = tagged
           /\ commandlist' = commandlist \o tagged
    /\ p' = p + 1
    /\ pc' = "threadCommands"
    /\ UNCHANGED <<obj, tool, holes, log, setup, h, elevator, passes, thread, z, r, i>>

NextRounded ==
    \/ CircularHoleExecute
    \/ ExecuteThreadMill
    \/ ThreadCommandsEntry
    \/ ThreadCommandsHelixRounded
    \/ ThreadCommandsExitRounded
    \/ ExecuteThreadMillReturn
    \/ CircularHoleExecuteReturn

SpecRounded == Init /\ [][NextRounded]_vars

(* ------------------------------- claims ------------------------------- *)

HasParameter(c, k) == k \in DOMAIN c.Parameters

\* threadPasses has returned for the current hole
PassesComputed == pc \in {"threadCommands", "helix"}

\* `path` holds the complete, feed-tagged command list of the last pass
PassCompleted == pc # "helix" /\ path # << >>

\* the pair threadRadii returns for the operation's thread and tool
RadiiOfOperation ==
    threadRadii(isThreadInternal(obj), obj.MajorDiameter, obj.MinorDiameter,
                tool.Diameter, tool.Crest)

\* C1: for count >= 1 and majorDia > minorDia the last radius threadPasses
\* returns is the full-depth cut radius, the second component of threadRadii
\* (pass radii are in units of 1/(RScale*count)).
C1_LastPassIsFullDepth ==
    (PassesComputed /\ obj.Passes >= 1 /\ obj.MajorDiameter > obj.MinorDiameter)
        => /\ Len(passes) >= 1
           /\ passes[Len(passes)] = RadiiOfOperation[2] * obj.Passes

\* C2: for count >= 1 threadPasses returns exactly count radii, strictly
\* increasing for an internal thread and strictly decreasing for an external one.
C2_PassesStrictlyMonotonic ==
    (PassesComputed /\ obj.Passes >= 1)
        => /\ Len(passes) = obj.Passes
           /\ \A j \in 1..(Len(passes) - 1) :
                IF isThreadInternal(obj)
                THEN passes[j] < passes[j + 1]
                ELSE passes[j] > passes[j + 1]

\* C3: for majorDia > minorDia > 0, toolCrest >= 0 and 0 < toolDia <
\* majorDia - minorDia, threadRadii returns (rMin, rMax) with rMin < rMax,
\* for an internal and for an external thread.
C3_RadiiOrdered ==
    (/\ PassesComputed
     /\ obj.MajorDiameter > obj.MinorDiameter /\ obj.MinorDiameter > 0
     /\ tool.Crest >= 0
     /\ 0 < tool.Diameter /\ tool.Diameter < obj.MajorDiameter - obj.MinorDiameter)
        => RadiiOfOperation[1] < RadiiOfOperation[2]

\* C4: a pass count below 1 is clamped to 1 before subdividing: the operation
\* never divides by zero, and a hole gets exactly one pass, at the full-depth radius.
C4_PassesClampedToOne ==
    obj.Passes < 1
        => /\ pc # "ZeroDivisionError"
           /\ PassesComputed
                => /\ Len(passes) = 1
                   /\ passes[1] = RadiiOfOperation[2]

\* circularHoleExecute has resolved the direction and the pitch
SetupDone == pc # "circularHoleExecute" /\ isToolSupported(tool)

\* commands of the operation's list that move the tool
MotionCommands == SelectSeq(commandlist, LAMBDA c : c.Name \in {"G0", "G1", "G2", "G3"})

\* C5 as stated: the pitch is 25.4/TPI when TPI > 0 and obj.Pitch otherwise,
\* and when it is <= 0 the operation ends with a diagnostic and an empty
\* command list, whatever the number of holes.
C5_NoCommandsOnBadPitch ==
    SetupDone
        => /\ IF obj.TPI > 0 THEN setup.pitch * obj.TPI = InchTicks
                             ELSE setup.pitch = obj.Pitch
           /\ setup.pitch <= 0
                => /\ pc = "done"
                   /\ log = << "Cannot create thread with pitch" >>
                   /\ commandlist = << >>

\* C5 amended: the pitch is 25.4/TPI when TPI > 0 and obj.Pitch otherwise, and
\* when it is <= 0 the operation ends with a diagnostic and a command list that
\* holds the "(Begin Thread Milling)" comment and nothing else: no move is
\* emitted, whatever the number of holes.
C5_OnlyBeginCommentOnBadPitch ==
    SetupDone
        => /\ IF obj.TPI > 0 THEN setup.pitch * obj.TPI = InchTicks
                             ELSE setup.pitch = obj.Pitch
           /\ setup.pitch <= 0
                => /\ pc = "done"
                   /\ log = << "Cannot create thread with pitch" >>
                   /\ Len(commandlist) = 1
                   /\ commandlist[1].Name = "(Begin Thread Milling)"
                   /\ MotionCommands = << >>

C5_Witness ==
    /\ pc = "done" /\ isToolSupported(tool)
    /\ obj.TPI = 0 /\ obj.Pitch = 0 /\ setup.pitch = 0
    /\ Len(holes) = 2
    /\ Len(commandlist) = 1

\* the entry X/Y rapid of a pass (the only G0 that commands X)
IsEntryRapid(c) == c.Name = "G0" /\ HasParameter(c, "X")

\* indices of the commands before index j that command Z
ZMovesBefore(j) == {k \in 1..(j - 1) : HasParameter(commandlist[k], "Z")}

Max(S) == CHOOSE m \in S : \A k \in S : k <= m

\* C6: in the operation's output the last Z-commanding move before the entry
\* X/Y rapid of every pass is the rapid to ClearanceHeight.
C6_EntryAtClearanceHeight ==
    \A j \in 1..Len(commandlist) :
        IsEntryRapid(commandlist[j])
            => /\ ZMovesBefore(j) # {}
               /\ LET c == commandlist[Max(ZMovesBefore(j))]
                  IN  /\ c.Name = "G0"
                      /\ c.Parameters.Z = obj.ClearanceHeight

\* C7: threadSetup yields, for an internal thread, Climb+Right (G3, FinalDepth,
\* StartDepth), Climb+Left (G3, StartDepth, FinalDepth), Conventional+Right
\* (G2, StartDepth, FinalDepth), Conventional+Left (G2, FinalDepth, StartDepth);
\* for an external thread the other arc command and the same depth pair.
C7_DirectionTable ==
    SetupDone
        => LET climb == obj.Direction = "Climb"
               right == obj.ThreadOrientation = "RightHand"
               internal == obj.ThreadType \in {"CustomInternal", "ImperialInternal2B",
                                               "ImperialInternal3B", "MetricInternal6H"}
               arc == IF climb THEN "G3" ELSE "G2"
               other == IF climb THEN "G2" ELSE "G3"
               fromFinal == (climb /\ right) \/ (~climb /\ ~right)
           IN  /\ setup.cmd = IF internal THEN arc ELSE other
               /\ setup.zStart = IF fromFinal THEN obj.FinalDepth ELSE obj.StartDepth
               /\ setup.zFinal = IF fromFinal THEN obj.StartDepth ELSE obj.FinalDepth

C7_Witness ==
    /\ pc = "done" /\ isToolSupported(tool)
    /\ obj.ThreadType = "CustomExternal"
    /\ obj.Direction = "Climb" /\ obj.ThreadOrientation = "LeftHand"
    /\ obj.StartDepth # obj.FinalDepth
    /\ setup.cmd = "G2" /\ setup.zStart = obj.StartDepth

\* the helical arcs of `path` (body arcs and the finishing arc): the arc
\* commands that command Z
HelixArcs == SelectSeq(path, LAMBDA c : c.Name \in {"G2", "G3"} /\ HasParameter(c, "Z"))

\* the finishing arcs of `path`: the arc commands that command X and Z
FinishArcs == SelectSeq(path, LAMBDA c : /\ c.Name \in {"G2", "G3"}
                                         /\ HasParameter(c, "X")
                                         /\ HasParameter(c, "Z"))

\* zStart followed by the Z targets of the helical arcs of `path`
HelixZ == << thread.zStart >> \o [k \in 1..Len(HelixArcs) |-> HelixArcs[k].Parameters.Z]

\* C8: with pitch > 0 the Z targets of the body arcs and of the finishing arc
\* of a pass move strictly from zStart toward zFinal, each step changes Z by at
\* most pitch/2, and no target lies beyond zFinal.
C8_HelixZMonotonic ==
    (path # << >> /\ setup.pitch > 0)
        => LET dir == IF thread.zStart < thread.zFinal THEN 1 ELSE -1
           IN  \A k \in 1..(Len(HelixZ) - 1) :
                   /\ (HelixZ[k + 1] - HelixZ[k]) * dir > 0
                   /\ 2 * Abs(HelixZ[k + 1] - HelixZ[k]) <= setup.pitch
                   /\ (thread.zFinal - HelixZ[k + 1]) * dir >= 0

C8_Witness ==
    /\ PassCompleted /\ setup.pitch > 0
    /\ thread.zStart > thread.zFinal
    /\ Len(HelixArcs) >= 2 /\ Len(FinishArcs) = 1
    /\ HelixZ[Len(HelixZ)] = thread.zFinal

\* the command names of `path`
PathNames == [k \in 1..Len(path) |-> path[k].Name]

\* C9: with zStart = zFinal a pass is exactly the entry commands (X/Y rapid,
\* Z rapid, the lead-in arc between two comments or one linear move) followed
\* by the exit commands (the lead-out arc between two comments if leadInOut,
\* then one linear move): no helical arc, no finishing arc, no finish comment.
C9_ZeroDepthThread ==
    (PassCompleted /\ thread.zStart = thread.zFinal)
        => /\ PathNames =
                << "G0", "G0" >>
                \o (IF obj.LeadInOut
                    THEN << "(------- lead-in -------)", thread.cmd,
                            "(------- lead-in -------)",
                            "(------- lead-out -------)", thread.cmd,
                            "(------- lead-out -------)" >>
                    ELSE << "G1" >>)
                \o << "G1" >>
           /\ DOMAIN path[1].Parameters = {"X", "Y", "F"}
           /\ DOMAIN path[2].Parameters = {"Z", "F"}
           /\ HelixArcs = << >>
           /\ i = 0

C9_Witness ==
    /\ PassCompleted /\ thread.zStart = thread.zFinal
    /\ obj.LeadInOut /\ Len(path) = 9

\* center.x of the pass in `path`: the X of its entry rapid (line 153)
PassCenterX == path[1].Parameters.X

\* C10 as stated: the X of the finishing arc's end point is center.x + r*dx
\* exactly when (the arc command is G3) differs from (the signed pitch is
\* positive), and center.x - r*dx otherwise.
C10_FinishXWhenParityDiffers ==
    (PassCompleted /\ Len(FinishArcs) = 1)
        => LET cx == PassCenterX
               rdx == Mul(r, FinishDx(thread))
               x == FinishArcs[1].Parameters.X
           IN  IF (thread.cmd = "G3") # (thread.pitch > 0)
               THEN x = cx + rdx
               ELSE x = cx - rdx

\* C10 amended: the X of the finishing arc's end point is center.x + r*dx
\* exactly when (the arc command is G3) equals (the signed pitch is positive),
\* that is for G3 with a positive pitch and for G2 with a negative pitch, and
\* center.x - r*dx otherwise.
C10_FinishXWhenParityAgrees ==
    (PassCompleted /\ Len(FinishArcs) = 1)
        => LET cx == PassCenterX
               rdx == Mul(r, FinishDx(thread))
               x == FinishArcs[1].Parameters.X
           IN  /\ rdx # 0
               /\ IF (thread.cmd = "G3") = (thread.pitch > 0)
                  THEN x = cx + rdx
                  ELSE x = cx - rdx

C10_Witness ==
    /\ PassCompleted /\ Len(FinishArcs) = 1
    /\ thread.cmd = "G3" /\ thread.pitch < 0
    /\ Len(HelixArcs) = 2
    /\ FinishArcs[1].Parameters.X
         = PassCenterX - Mul(r, FinishDx(thread))

\* the depth range |zFinal - zStart| of the pass in `path`
PassDepth == Abs(thread.zFinal - thread.zStart)

\* C11: with pitch > 0 the helix loop of a pass ends after exactly
\* floor(|zFinal - zStart| / (pitch/2)) half-turn arcs, the last Z the pass
\* commands is zFinal, and the pass has a finishing arc if and only if
\* |zFinal - zStart| is not a multiple of pitch/2.
C11_HelixArcCount ==
    (PassCompleted /\ setup.pitch > 0)
        => /\ i = (2 * PassDepth) \div setup.pitch
           /\ Len(HelixArcs) - Len(FinishArcs) = i
           /\ HelixZ[Len(HelixZ)] = thread.zFinal
           /\ Len(FinishArcs) = IF (2 * PassDepth) % setup.pitch # 0 THEN 1 ELSE 0

\* threadCommands has just returned the pass passes[p - 1] of hole holes[h]
PassJustCompleted == pc = "threadCommands" /\ p > 1

\* the moves of `path` up to the helix body: the lead-in (or the linear
\* entry move) and the body arcs command Y and no X
CuttingMoves == SelectSeq(path, LAMBDA c : HasParameter(c, "Y") /\ ~HasParameter(c, "X"))

\* the lead-out arc of `path`: the arc that commands X and no Z
LeadOutArcs == SelectSeq(path, LAMBDA c : /\ c.Name \in {"G2", "G3"}
                                          /\ HasParameter(c, "X")
                                          /\ ~HasParameter(c, "Z"))

\* C12: when a pass has no finishing arc, the exit point from which
\* threadCommands computes the retreat angle is the position of the tool after
\* the last cutting move, (center.x, yMax) after the lead-in or an even number
\* of body arcs and (center.x, yMin) after an odd number, and the end point of
\* the lead-out arc lies on the same Y side of the hole centre as the tool.
C12_ExitPointIsToolPosition ==
    (PassJustCompleted /\ FinishArcs = << >>)
        => LET center == CenterOf(obj, holes[h])
               radius == RadiusOf(passes[p - 1])
               pt == ExitPoint(center, thread, radius, z, r, i)
               toolY == CuttingMoves[Len(CuttingMoves)].Parameters.Y
           IN  /\ pt.x = center.x
               /\ toolY = IF i % 2 = 0 THEN yMaxOf(center, radius)
                                       ELSE yMinOf(center, radius)
               /\ pt.y = toolY
               /\ obj.LeadInOut
                    => /\ Len(LeadOutArcs) = 1
                       /\ (LeadOutArcs[1].Parameters.Y - center.y) * (toolY - center.y) > 0

====
